---- MODULE Spec2Model ----
(***************************************************************************)
(* A model of generate_images.py: the orchestrator main(), the template    *)
(* validator and the two renderers generate_languages / generate_overview  *)
(* that asyncio.gather runs as cooperatively scheduled tasks.              *)
(*                                                                         *)
(* Text is modelled as a sequence of items.  An item is a one-character    *)
(* string, or a whole placeholder token such as "{{ name }}" (a token is   *)
(* matched as a unit, so it is kept as a unit).  Numbers that the code     *)
(* formats (f"{n:,}", f"{x:0.3f}") become sequences of characters.         *)
(* Floating point values are modelled as exact fractions [num, den].       *)
(***************************************************************************)
EXTENDS Integers, Sequences, FiniteSets, TLC

VARIABLES
    templates,   \* templates/*.svg on disk: path -> [exists, body, pad]
    env,         \* the process environment: name -> [set, value]
    stats,       \* what the statistics source resolves each field to
    pc,          \* position of main and of each renderer task
    fetchIdx,    \* per renderer: index of the field it awaits
    current,     \* the task that holds the event loop, or "none"
    err,         \* per task: the exception it ended with, or "none"
    fs,          \* generated/: [dir, files: path -> file]
    output,      \* per renderer: its local variables after rendering
    validation,  \* outcome of validate_templates()
    config,      \* main's locals: access_token, user, exclusions, forks flag
    session,     \* the aiohttp.ClientSession: "none", "open", "closed"
    source,      \* whether Stats(...) has been constructed
    gather,      \* the gather future: "none", "pending", "ok" or an exception
    trace        \* history: steps of main, fetches, mkdir calls, writers, ...

vars == << templates, env, stats, pc, fetchIdx, current, err, fs, output,
           validation, config, session, source, gather, trace >>

-----------------------------------------------------------------------------
(* Bounds of the model *)

MaxLangs == 3
MaxSize == 3
MaxNameLen == 2
MaxEnvLen == 3

-----------------------------------------------------------------------------
(* Generic helpers on sequences *)

Range(s) == { s[i] : i \in DOMAIN s }

Contains(s, x) == \E i \in DOMAIN s : s[i] = x

RECURSIVE Flatten(_)
Flatten(ss) == IF ss = << >> THEN << >> ELSE Head(ss) \o Flatten(Tail(ss))

RECURSIVE SumSeq(_)
SumSeq(s) == IF s = << >> THEN 0 ELSE Head(s) + SumSeq(Tail(s))

SeqsUpTo(S, n) == UNION { [1..k -> S] : k \in 0..n }

-----------------------------------------------------------------------------
(* Paths and the required templates *)

OverviewTemplate == "templates/overview.svg"
LanguagesTemplate == "templates/languages.svg"
OverviewOutput == "generated/overview.svg"
LanguagesOutput == "generated/languages.svg"

TemplatePaths == { OverviewTemplate, LanguagesTemplate }
OutputPaths == { OverviewOutput, LanguagesOutput }

OverviewTokens ==
    << "{{ name }}", "{{ stars }}", "{{ forks }}", "{{ contributions }}",
       "{{ lines_changed }}", "{{ views }}", "{{ repos }}" >>

LanguagesTokens == << "{{ progress }}", "{{ lang_list }}" >>

\* required_templates, in the order .items() yields it (insertion order)
RequiredTemplates ==
    << [path |-> OverviewTemplate, placeholders |-> OverviewTokens],
       [path |-> LanguagesTemplate, placeholders |-> LanguagesTokens] >>

AbsentFile == [exists |-> FALSE, body |-> << >>, pad |-> 0]

\* os.path.isfile(path)
IsFile(files, path) == files[path].exists

\* variant: the scan stops at the first placeholder it misses
MissingPlaceholders_FirstOnly(content, required) ==
    LET all == SelectSeq(required, LAMBDA placeholder : ~ Contains(content, placeholder))
    IN  IF all = << >> THEN << >> ELSE << Head(all) >>

\* `placeholder not in content`: the pad bytes are text without any token
MissingPlaceholders(content, required) ==
    SelectSeq(required, LAMBDA placeholder : ~ Contains(content, placeholder))

ValidationOk == [ok |-> TRUE, kind |-> "none", path |-> "", missing |-> << >>]

\* validate_templates(): the loop from the i-th required template on; the first
\* template that is absent or lacks a placeholder raises, ending the loop.
RECURSIVE ValidateFrom(_, _)
ValidateFrom(files, i) ==
    IF i > Len(RequiredTemplates) THEN ValidationOk
    ELSE LET template_path == RequiredTemplates[i].path
             required_placeholders == RequiredTemplates[i].placeholders
         IN  IF ~ IsFile(files, template_path)
             THEN [ok |-> FALSE, kind |-> "not_found",
                   path |-> template_path, missing |-> << >>]
             ELSE LET missing_placeholders ==
                          MissingPlaceholders(files[template_path].body,
                                              required_placeholders)
                  IN  IF missing_placeholders # << >>
                      THEN [ok |-> FALSE, kind |-> "missing_placeholders",
                            path |-> template_path,
                            missing |-> missing_placeholders]
                      ELSE ValidateFrom(files, i + 1)

ValidateTemplates(files) == ValidateFrom(files, 1)

-----------------------------------------------------------------------------
(* Environment variables *)

EnvNames == { "ACCESS_TOKEN", "GITHUB_TOKEN", "GITHUB_ACTOR", "EXCLUDED",
              "EXCLUDED_LANGS", "COUNT_STATS_FROM_FORKS" }

Unset == [set |-> FALSE, value |-> << >>]
SetTo(v) == [set |-> TRUE, value |-> v]

\* os.getenv(name) is None, or a string that `not` finds empty
Falsy(e, name) == ~ e[name].set \/ e[name].value = << >>

\* os.getenv(name, "")
GetenvOrEmpty(e, name) == IF e[name].set THEN e[name].value ELSE << >>

Whitespace == { " ", "\t", "\n", "\r", "\f" }

RECURSIVE LStrip(_)
LStrip(s) ==
    IF s # << >> /\ Head(s) \in Whitespace THEN LStrip(Tail(s)) ELSE s

RECURSIVE RStrip(_)
RStrip(s) ==
    IF s # << >> /\ s[Len(s)] \in Whitespace
    THEN RStrip(SubSeq(s, 1, Len(s) - 1)) ELSE s

\* str.strip()
Strip(s) == RStrip(LStrip(s))

UpperToLower ==
    [c \in { "E", "N", "O", "S", "T", "R", "U", "Y" } |->
        CASE c = "E" -> "e" [] c = "N" -> "n" [] c = "O" -> "o"
          [] c = "S" -> "s" [] c = "T" -> "t" [] c = "R" -> "r"
          [] c = "U" -> "u" [] c = "Y" -> "y"]

LowerChar(c) == IF c \in DOMAIN UpperToLower THEN UpperToLower[c] ELSE c

\* str.lower()
Lower(s) == [i \in DOMAIN s |-> LowerChar(s[i])]

\* ("true", "1", "yes", "on")
TruthyForms ==
    { << "t", "r", "u", "e" >>, << "1" >>, << "y", "e", "s" >>, << "o", "n" >> }

\* variant: the comparison without .lower()
ConsiderForkedRepos_CaseSensitive(e) ==
    LET count_forks_env == Strip(GetenvOrEmpty(e, "COUNT_STATS_FROM_FORKS"))
    IN  IF count_forks_env # << >>
        THEN count_forks_env \in TruthyForms
        ELSE FALSE

\* count_forks_env = os.getenv("COUNT_STATS_FROM_FORKS", "").strip()
\* consider_forked_repos = count_forks_env.lower() in (...) if count_forks_env else False
ConsiderForkedRepos(e) ==
    LET count_forks_env == Strip(GetenvOrEmpty(e, "COUNT_STATS_FROM_FORKS"))
    IN  IF count_forks_env # << >>
        THEN Lower(count_forks_env) \in TruthyForms
        ELSE FALSE

\* str.split(","): the pieces between the commas
RECURSIVE SplitComma(_, _)
SplitComma(s, piece) ==
    IF s = << >> THEN << piece >>
    ELSE IF Head(s) = "," THEN << piece >> \o SplitComma(Tail(s), << >>)
    ELSE SplitComma(Tail(s), Append(piece, Head(s)))

NoneValue == [none |-> TRUE, items |-> { }]

\* ({x.strip() for x in v.split(",") if x.strip()} if v else None), v stripped
ExclusionSet(e, name) ==
    LET v == Strip(GetenvOrEmpty(e, name))
    IN  IF v = << >> THEN NoneValue
        ELSE [none |-> FALSE,
              items |-> { Strip(x) : x \in
                            { y \in Range(SplitComma(v, << >>)) :
                                  Strip(y) # << >> } }]

-----------------------------------------------------------------------------
(* Number formatting *)

DigitChars == << "0", "1", "2", "3", "4", "5", "6", "7", "8", "9" >>

\* str(n) for n >= 0
RECURSIVE Digits(_)
Digits(n) ==
    IF n < 10 THEN << DigitChars[n + 1] >>
    ELSE Digits(n \div 10) \o << DigitChars[(n % 10) + 1] >>

\* the digits of n, zero-padded on the left to `width` places
RECURSIVE ZeroPad(_, _)
ZeroPad(n, width) ==
    IF width = 0 THEN << >>
    ELSE ZeroPad(n \div 10, width - 1) \o << DigitChars[(n % 10) + 1] >>

\* f"{n:,}" for an int n >= 0
RECURSIVE FmtThousands(_)
FmtThousands(n) ==
    IF n < 1000 THEN Digits(n)
    ELSE FmtThousands(n \div 1000) \o << "," >> \o ZeroPad(n % 1000, 3)

RECURSIVE Pow10(_)
Pow10(k) == IF k = 0 THEN 1 ELSE 10 * Pow10(k - 1)

\* the integer nearest to num/den, a tie going to the even one
RoundHalfEven(num, den) ==
    LET q == num \div den
        r == num % den
    IN  IF 2 * r < den THEN q
        ELSE IF 2 * r > den THEN q + 1
        ELSE IF q % 2 = 0 THEN q ELSE q + 1

\* f"{x:0.<k>f}" for a fraction x >= 0
FmtFixed(x, k) ==
    LET scaled == RoundHalfEven(x.num * Pow10(k), x.den)
    IN  Digits(scaled \div Pow10(k)) \o << "." >> \o ZeroPad(scaled % Pow10(k), k)

-----------------------------------------------------------------------------
(* generate_languages: the rendering between `await s.languages` and the     *)
(* write of the output file                                                *)

NoColor == "None"
FallbackColor == "#000000"
UnknownColor == "#cccccc"

LangNames == << "Go", "Python", "Rust", "C", "Java" >>
LangColors == << "#00ADD8", "#3572A5", "#dea584", "#555555", "#b07219" >>

\* len(s) of the strings that occur as language names and colors
StrLen(s) ==
    CASE s = "Go" -> 2 [] s = "Python" -> 6 [] s = "Rust" -> 4 [] s = "C" -> 1
      [] s = "Java" -> 4 [] s = "Unknown" -> 7
      [] OTHER -> 7

\* the ratio lists [.98, .02], [.99, .01], [1, 0], in hundredths
RatioDen == 100
DefaultRatio == << 98, 2 >>
DominantRatio == << 99, 1 >>
FinalRatio == << 100, 0 >>
DominantThreshold == 50
delay_between == 150

\* {"Unknown": {"size": 1, "color": "#cccccc", "prop": 100.0}}
UnknownLanguages ==
    << [lang |-> "Unknown", size |-> 1, color |-> UnknownColor,
        prop |-> [num |-> 100, den |-> 1]] >>

\* variant: an empty mapping is rendered as it is
LanguagesOrDefault_NoFallback(languages) == languages

\* if not languages: languages = {"Unknown": ...}
LanguagesOrDefault(languages) ==
    IF languages = << >> THEN UnknownLanguages ELSE languages

\* variant: x goes before the entries of its own size (an ascending sort,
\* reversed)
RECURSIVE InsertDescending_TiesFirst(_, _)
InsertDescending_TiesFirst(x, sorted) ==
    IF sorted = << >> THEN << x >>
    ELSE IF Head(sorted).size > x.size
         THEN << Head(sorted) >> \o InsertDescending_TiesFirst(x, Tail(sorted))
         ELSE << x >> \o sorted

\* x goes behind every entry that is at least as large: equal sizes keep the
\* order in which they were met
RECURSIVE InsertDescending(_, _)
InsertDescending(x, sorted) ==
    IF sorted = << >> THEN << x >>
    ELSE IF Head(sorted).size >= x.size
         THEN << Head(sorted) >> \o InsertDescending(x, Tail(sorted))
         ELSE << x >> \o sorted

RECURSIVE SortFrom(_, _, _)
SortFrom(items, i, sorted) ==
    IF i > Len(items) THEN sorted
    ELSE SortFrom(items, i + 1, InsertDescending(items[i], sorted))

\* sorted(languages.items(), reverse=True, key=lambda t: t[1].get("size")):
\* descending, and stable also under reverse=True
SortedLanguages(languages) == SortFrom(languages, 1, << >>)

\* variant: >= in place of >
ExceedsThreshold_AtLeast(prop) == prop.num >= DominantThreshold * prop.den

\* data.get("prop", 0) > 50
ExceedsThreshold(prop) == prop.num > DominantThreshold * prop.den

\* the ratio of the entry at index i (from 0) of n sorted entries
Ratio(prop, i, n) ==
    LET byProp == IF ExceedsThreshold(prop) THEN DominantRatio ELSE DefaultRatio
    IN  IF i = n - 1 THEN FinalRatio ELSE byProp

\* ratio[k] * data.get("prop", 0), exactly
Scaled(component, prop) ==
    [num |-> component * prop.num, den |-> RatioDen * prop.den]

\* one pass of the loop body: the locals, and what goes into the fragments
Row(i, entry, n) ==
    LET color == IF entry.color # NoColor THEN entry.color ELSE FallbackColor
        ratio == Ratio(entry.prop, i, n)
    IN  [i |-> i, lang |-> entry.lang, size |-> entry.size,
         prop |-> entry.prop, color |-> color, ratio |-> ratio,
         w |-> Scaled(ratio[1], entry.prop),
         m |-> Scaled(ratio[2], entry.prop),
         width |-> FmtFixed(Scaled(ratio[1], entry.prop), 3),
         margin |-> FmtFixed(Scaled(ratio[2], entry.prop), 3),
         delay |-> i * delay_between,
         percent |-> FmtFixed(entry.prop, 2)]

\* bytes of the literal text of one <span ...></span> and of one <li>...</li>
SpanLiteralLen == 88
ItemLiteralLen == 302

SpanLen(row) ==
    SpanLiteralLen + StrLen(row.color) + Len(row.width) + Len(row.margin)

ListItemLen(row) ==
    ItemLiteralLen + Len(Digits(row.delay)) + StrLen(row.color)
        + StrLen(row.lang) + Len(row.percent)

TokenLen(token) ==
    CASE token = "{{ name }}" -> 10 [] token = "{{ stars }}" -> 11
      [] token = "{{ forks }}" -> 11 [] token = "{{ contributions }}" -> 19
      [] token = "{{ lines_changed }}" -> 19 [] token = "{{ views }}" -> 11
      [] token = "{{ repos }}" -> 11 [] token = "{{ progress }}" -> 14
      [] token = "{{ lang_list }}" -> 15
      [] OTHER -> 1

\* len of the text `body`, its two languages tokens replaced by the fragments
TextLen(body, progressLen, listLen) ==
    SumSeq([k \in DOMAIN body |->
               IF body[k] = "{{ progress }}" THEN progressLen
               ELSE IF body[k] = "{{ lang_list }}" THEN listLen
               ELSE TokenLen(body[k])])

Occurrences(body, token) == Cardinality({ k \in DOMAIN body : body[k] = token })

RECURSIVE Repeat(_, _)
Repeat(s, times) == IF times = 0 THEN << >> ELSE s \o Repeat(s, times - 1)

\* generate_languages from the resolved mapping to the final `output` string
RenderLanguages(template, languages) ==
    LET sorted_languages == SortedLanguages(LanguagesOrDefault(languages))
        n == Len(sorted_languages)
        rows == [k \in 1..n |-> Row(k - 1, sorted_languages[k], n)]
        progress ==
            [k \in 1..n |-> [color |-> rows[k].color, width |-> rows[k].width,
                             margin |-> rows[k].margin]]
        lang_list ==
            [k \in 1..n |-> [delay |-> rows[k].delay, color |-> rows[k].color,
                             lang |-> rows[k].lang, percent |-> rows[k].percent]]
        progressLen == SumSeq([k \in 1..n |-> SpanLen(rows[k])])
        listLen == SumSeq([k \in 1..n |-> ListItemLen(rows[k])])
    IN  [ok |-> TRUE, text |-> template.body, rows |-> rows,
         progress |-> Repeat(progress, Occurrences(template.body, "{{ progress }}")),
         lang_list |-> Repeat(lang_list, Occurrences(template.body, "{{ lang_list }}")),
         size |-> template.pad
                    + TextLen(template.body,
                              IF "{{ progress }}" \in Range(template.body)
                              THEN progressLen ELSE 0,
                              IF "{{ lang_list }}" \in Range(template.body)
                              THEN listLen ELSE 0)]

-----------------------------------------------------------------------------
(* generate_overview: the substitutions *)

\* the escapes re.sub knows in a replacement string
ReplEscapes == { "a", "b", "f", "n", "r", "t", "v", "\\" }

\* the character an escape stands for (BEL, BS, VT written by name)
EscapeOf(c) ==
    CASE c = "n" -> "\n" [] c = "t" -> "\t" [] c = "r" -> "\r"
      [] c = "f" -> "\f" [] c = "a" -> "<BEL>" [] c = "b" -> "<BS>"
      [] c = "v" -> "<VT>" [] OTHER -> "\\"

AsciiLetters ==
    { "c", "d", "e", "g", "h", "i", "j", "k", "l", "m", "o", "p",
      "q", "s", "u", "w", "x", "y", "z",
      "A", "B", "C", "D", "E", "F", "G", "H", "I", "J", "K", "L", "M", "N",
      "O", "P", "Q", "R", "S", "T", "U", "V", "W", "X", "Y", "Z" }

\* re.sub's processing of its replacement string: a backslash escape is
\* converted (\n, \\), a backslash before another letter or a digit, or at
\* the end, is an error (re.error: bad escape / invalid group reference);
\* any other backslash stays.  A text without backslash is used as it is.
RECURSIVE ReplExpand(_)
ReplExpand(repl) ==
    IF repl = << >> THEN [ok |-> TRUE, text |-> << >>]
    ELSE IF Head(repl) # "\\"
         THEN LET rest == ReplExpand(Tail(repl))
              IN  [ok |-> rest.ok, text |-> << Head(repl) >> \o rest.text]
    ELSE IF Len(repl) = 1 THEN [ok |-> FALSE, text |-> << >>]
    ELSE LET c == repl[2]
             rest == ReplExpand(Tail(Tail(repl)))
         IN  IF c \in ReplEscapes
             THEN [ok |-> rest.ok, text |-> << EscapeOf(c) >> \o rest.text]
             ELSE IF c \in AsciiLetters \/ c \in Range(DigitChars)
             THEN [ok |-> FALSE, text |-> << >>]
             ELSE [ok |-> rest.ok, text |-> << "\\", c >> \o rest.text]

\* re.sub(token, repl, text): every occurrence of the token is replaced
ReSub(token, repl, text) ==
    LET expanded == ReplExpand(repl)
    IN  IF ~ expanded.ok THEN [ok |-> FALSE, text |-> text]
        ELSE [ok |-> TRUE,
              text |-> Flatten([k \in DOMAIN text |->
                                   IF text[k] = token THEN expanded.text
                                   ELSE << text[k] >>])]

\* the re.sub calls one after the other; the first that raises ends them
RECURSIVE SubstituteAll(_, _)
SubstituteAll(pairs, text) ==
    IF pairs = << >> THEN [ok |-> TRUE, text |-> text]
    ELSE LET step == ReSub(Head(pairs)[1], Head(pairs)[2], text)
         IN  IF ~ step.ok THEN step ELSE SubstituteAll(Tail(pairs), step.text)

\* changed = lines_changed[0] + lines_changed[1]
Changed(lines_changed) == lines_changed[1] + lines_changed[2]

\* the seven (token, replacement) pairs in the order of the re.sub calls
OverviewSubstitutions(s) ==
    << << "{{ name }}", s.name >>,
       << "{{ stars }}", FmtThousands(s.stargazers) >>,
       << "{{ forks }}", FmtThousands(s.forks) >>,
       << "{{ contributions }}", FmtThousands(s.total_contributions) >>,
       << "{{ lines_changed }}", FmtThousands(Changed(s.lines_changed)) >>,
       << "{{ views }}", FmtThousands(s.views) >>,
       << "{{ repos }}", FmtThousands(Cardinality(s.all_repos)) >> >>

\* generate_overview from the resolved fields to the final `output` string
RenderOverview(template, s) ==
    LET result == SubstituteAll(OverviewSubstitutions(s), template.body)
    IN  [ok |-> result.ok, text |-> result.text, rows |-> << >>,
         progress |-> << >>, lang_list |-> << >>,
         size |-> template.pad + TextLen(result.text, 0, 0)]

-----------------------------------------------------------------------------
(* The tasks *)

Renderers == { "languages", "overview" }
Tasks == { "main" } \cup Renderers

TemplateOf(t) == IF t = "overview" THEN OverviewTemplate ELSE LanguagesTemplate

\* output_path of each renderer
OutputOf(t) == IF t = "overview" THEN OverviewOutput ELSE LanguagesOutput

\* the fields a renderer awaits, in order
AwaitedFields(t) ==
    IF t = "overview"
    THEN << "name", "stargazers", "forks", "total_contributions",
            "lines_changed", "views", "all_repos" >>
    ELSE << "languages" >>

\* what each renderer computes once its last field has resolved
Render(t, files, s) ==
    IF t = "overview" THEN RenderOverview(files[OverviewTemplate], s)
    ELSE RenderLanguages(files[LanguagesTemplate], s.languages)

\* variant: every statement is a point of suspension
Yields_Everywhere(label) == TRUE

\* A coroutine gives up the event loop at an `await` and when it ends, and
\* nowhere else: the statements from generate_output_folder() to the size
\* check are synchronous.
Yields(label) == label \in { "await", "done", "failed", "cancelled" }

MinOutputSize == 100

\* variant: the size is not looked at
CheckOutput_ExistsOnly(files, path) ==
    IF ~ files[path].exists THEN "OutputMissing" ELSE "ok"

\* the validation of the generated file: isfile, then getsize against 100
CheckOutput(files, path) ==
    IF ~ files[path].exists THEN "OutputMissing"
    ELSE IF files[path].size < MinOutputSize THEN "OutputTooSmall"
    ELSE "ok"

\* variant: gather(..., return_exceptions=True), which completes normally
\* once every child has ended
GatherAfter_CollectingExceptions(g, allFinished, e) ==
    IF g # "pending" THEN g
    ELSE IF allFinished THEN "ok" ELSE "pending"

\* The future asyncio.gather(a, b) returns, after a child ended with
\* exception e ("none": it returned): the first exception completes it at
\* once, and it completes normally when every child has returned.
GatherAfter(g, allFinished, e) ==
    IF g # "pending" THEN g
    ELSE IF e # "none" THEN e
    ELSE IF allFinished THEN "ok" ELSE "pending"

\* main()'s steps in program order; "gathering" is the await of the gather
MainOrder ==
    << "validate", "credential", "user", "options", "session", "source",
       "gather", "gathering" >>

\* variant: the session and the source are set up before the environment
\* is looked at
NextMainStep_SessionFirst(step) ==
    LET order == << "validate", "session", "source", "credential", "user",
                    "options", "gather", "gathering" >>
    IN  order[(CHOOSE i \in DOMAIN order : order[i] = step) + 1]

NextMainStep(step) ==
    MainOrder[(CHOOSE i \in DOMAIN MainOrder : MainOrder[i] = step) + 1]

-----------------------------------------------------------------------------
(* Initial states *)

NoFile ==
    [exists |-> FALSE, size |-> 0, text |-> << >>, progress |-> << >>,
     lang_list |-> << >>]

NoOutput ==
    [ok |-> FALSE, text |-> << >>, rows |-> << >>, progress |-> << >>,
     lang_list |-> << >>, size |-> 0]

NoSource ==
    [built |-> FALSE, user |-> << >>, access_token |-> << >>,
     exclude_repos |-> NoneValue, exclude_langs |-> NoneValue,
     consider_forked_repos |-> FALSE]

InitWith(T, E, S, D) ==
    /\ templates \in T
    /\ env \in E
    /\ stats \in S
    /\ pc = [t \in Tasks |-> IF t = "main" THEN "validate" ELSE "unborn"]
    /\ fetchIdx = [t \in Renderers |-> 0]
    /\ current = "main"
    /\ err = [t \in Tasks |-> "none"]
    /\ \E d \in D : fs = [dir |-> d, files |-> [p \in OutputPaths |-> NoFile]]
    /\ output = [t \in Renderers |-> NoOutput]
    /\ validation = [ok |-> FALSE, kind |-> "pending", path |-> "",
                     missing |-> << >>]
    /\ config = [access_token |-> << >>, warned |-> FALSE, user |-> << >>,
                 exclude_repos |-> NoneValue, exclude_langs |-> NoneValue,
                 consider_forked_repos |-> FALSE]
    /\ session = "none"
    /\ source = NoSource
    /\ gather = "none"
    /\ trace = [steps |-> << >>, fetches |-> 0, mkdirs |-> 0,
                writers |-> [p \in OutputPaths |-> { }],
                failures |-> << >>, success |-> FALSE]

-----------------------------------------------------------------------------
(* main() *)

\* how a step of main ends: it goes on to the next step, or raises
MainOutcome(step, ok, e) ==
    /\ pc' = [pc EXCEPT !["main"] = IF ok THEN NextMainStep(step) ELSE "failed"]
    /\ err' = [err EXCEPT !["main"] = IF ok THEN "none" ELSE e]
    /\ current' = IF ok THEN "main" ELSE "none"
    /\ trace' = [trace EXCEPT !.steps = Append(@, step)]

\* validate_templates() in its try block
MainValidate ==
    /\ pc["main"] = "validate"
    /\ validation' = ValidateTemplates(templates)
    /\ MainOutcome("validate", validation'.ok, "ConfigurationError")
    /\ UNCHANGED << templates, env, stats, fetchIdx, fs, output, config,
                    session, source, gather >>

\* ACCESS_TOKEN, else GITHUB_TOKEN with a warning, else raise
MainCredential ==
    /\ pc["main"] = "credential"
    /\ LET primary == ~ Falsy(env, "ACCESS_TOKEN")
           fallback == ~ Falsy(env, "GITHUB_TOKEN")
       IN  /\ config' =
                 IF primary
                 THEN [config EXCEPT !.access_token = env["ACCESS_TOKEN"].value]
                 ELSE IF fallback
                 THEN [config EXCEPT !.access_token = env["GITHUB_TOKEN"].value,
                                     !.warned = TRUE]
                 ELSE config
           /\ MainOutcome("credential", primary \/ fallback, "MissingCredential")
    /\ UNCHANGED << templates, env, stats, fetchIdx, fs, output, validation,
                    session, source, gather >>

\* user = os.getenv("GITHUB_ACTOR"), required
MainUser ==
    /\ pc["main"] = "user"
    /\ config' = IF Falsy(env, "GITHUB_ACTOR") THEN config
                 ELSE [config EXCEPT !.user = env["GITHUB_ACTOR"].value]
    /\ MainOutcome("user", ~ Falsy(env, "GITHUB_ACTOR"), "MissingUser")
    /\ UNCHANGED << templates, env, stats, fetchIdx, fs, output, validation,
                    session, source, gather >>

\* EXCLUDED, EXCLUDED_LANGS and COUNT_STATS_FROM_FORKS
MainOptions ==
    /\ pc["main"] = "options"
    /\ config' = [config EXCEPT
                    !.exclude_repos = ExclusionSet(env, "EXCLUDED"),
                    !.exclude_langs = ExclusionSet(env, "EXCLUDED_LANGS"),
                    !.consider_forked_repos = ConsiderForkedRepos(env)]
    /\ MainOutcome("options", TRUE, "none")
    /\ UNCHANGED << templates, env, stats, fetchIdx, fs, output, validation,
                    session, source, gather >>

\* async with aiohttp.ClientSession() as session
MainSession ==
    /\ pc["main"] = "session"
    /\ session' = "open"
    /\ MainOutcome("session", TRUE, "none")
    /\ UNCHANGED << templates, env, stats, fetchIdx, fs, output, validation,
                    config, source, gather >>

\* s = Stats(user, access_token, session, ...)
MainSource ==
    /\ pc["main"] = "source"
    /\ source' = [built |-> TRUE, user |-> config.user,
                  access_token |-> config.access_token,
                  exclude_repos |-> config.exclude_repos,
                  exclude_langs |-> config.exclude_langs,
                  consider_forked_repos |-> config.consider_forked_repos]
    /\ MainOutcome("source", TRUE, "none")
    /\ UNCHANGED << templates, env, stats, fetchIdx, fs, output, validation,
                    config, session, gather >>

\* await asyncio.gather(generate_languages(s), generate_overview(s)): both
\* coroutines become tasks and main waits for the gather future
MainGather ==
    /\ pc["main"] = "gather"
    /\ pc' = [t \in Tasks |-> IF t = "main" THEN NextMainStep("gather")
                              ELSE "ready"]
    /\ gather' = "pending"
    /\ current' = "none"
    /\ trace' = [trace EXCEPT !.steps = Append(@, "gather")]
    /\ UNCHANGED << templates, env, stats, fetchIdx, err, fs, output,
                    validation, config, session, source >>

\* main resumes when the gather future is complete: the session is left,
\* then either the success line is printed or the exception is re-raised
MainJoin ==
    /\ pc["main"] = "gathering"
    /\ current = "none"
    /\ gather \notin { "none", "pending" }
    /\ session' = "closed"
    /\ pc' = [pc EXCEPT !["main"] = IF gather = "ok" THEN "done" ELSE "failed"]
    /\ err' = [err EXCEPT !["main"] = IF gather = "ok" THEN "none" ELSE gather]
    /\ trace' = [trace EXCEPT !.success = (gather = "ok")]
    /\ UNCHANGED << templates, env, stats, fetchIdx, current, fs, output,
                    validation, config, source, gather >>

-----------------------------------------------------------------------------
(* The renderers *)

Runnable(t) == current = "none" \/ current = t

OthersFinished(t) ==
    \A u \in Renderers \ { t } : pc[u] \in { "done", "failed", "cancelled" }

TaskTo(t, label) ==
    /\ pc' = [pc EXCEPT ![t] = label]
    /\ current' = IF Yields(label) THEN "none" ELSE t

\* the coroutine goes on to `label`
Continue(t, label, newTrace) ==
    /\ TaskTo(t, label)
    /\ trace' = newTrace
    /\ UNCHANGED << err, gather >>

\* except Exception as e: print(...); raise
Raise(t, e, newTrace) ==
    /\ TaskTo(t, "failed")
    /\ err' = [err EXCEPT ![t] = e]
    /\ gather' = GatherAfter(gather, OthersFinished(t), e)
    /\ trace' = [newTrace EXCEPT !.failures = Append(@, [task |-> t, error |-> e])]

\* the coroutine returns
Return(t) ==
    /\ TaskTo(t, "done")
    /\ gather' = GatherAfter(gather, OthersFinished(t), "none")
    /\ UNCHANGED << err, trace >>

Fetched == [trace EXCEPT !.fetches = @ + 1]

\* from the start of the coroutine to its first await: the template is read.
\* The tasks start in the order gather was given them.
Start(t) ==
    /\ pc[t] = "ready"
    /\ Runnable(t)
    /\ t = "overview" => pc["languages"] # "ready"
    /\ IF ~ IsFile(templates, TemplateOf(t))
       THEN Raise(t, "TemplateMissing", trace) /\ UNCHANGED fetchIdx
       ELSE Continue(t, "await", Fetched) /\ fetchIdx' = [fetchIdx EXCEPT ![t] = 1]
    /\ UNCHANGED << templates, env, stats, fs, output, validation, config,
                    session, source >>

\* an awaited field resolves, or the fetch raises; after the last field the
\* coroutine renders its output string
Fetch(t) ==
    /\ pc[t] = "await"
    /\ Runnable(t)
    /\ \E raised \in BOOLEAN :
          IF raised
          THEN Raise(t, "FetchError", trace) /\ UNCHANGED << fetchIdx, output >>
          ELSE IF fetchIdx[t] < Len(AwaitedFields(t))
          THEN /\ Continue(t, "await", Fetched)
               /\ fetchIdx' = [fetchIdx EXCEPT ![t] = @ + 1]
               /\ UNCHANGED output
          ELSE LET rendered == Render(t, templates, stats)
               IN  /\ output' = [output EXCEPT ![t] = rendered]
                   /\ UNCHANGED fetchIdx
                   /\ IF rendered.ok THEN Continue(t, "ensure_dir", trace)
                      ELSE Raise(t, "ReError", trace)
    /\ UNCHANGED << templates, env, stats, fs, validation, config, session,
                    source >>

\* generate_output_folder(): if not os.path.isdir("generated")
EnsureDir(t) ==
    /\ pc[t] = "ensure_dir"
    /\ Runnable(t)
    /\ Continue(t, IF fs.dir THEN "write" ELSE "mkdir", trace)
    /\ UNCHANGED << templates, env, stats, fetchIdx, fs, output, validation,
                    config, session, source >>

\* os.mkdir("generated"), which raises if the directory exists
Mkdir(t) ==
    /\ pc[t] = "mkdir"
    /\ Runnable(t)
    /\ LET called == [trace EXCEPT !.mkdirs = @ + 1]
       IN  IF fs.dir
           THEN Raise(t, "FileExistsError", called) /\ UNCHANGED fs
           ELSE Continue(t, "write", called) /\ fs' = [fs EXCEPT !.dir = TRUE]
    /\ UNCHANGED << templates, env, stats, fetchIdx, output, validation,
                    config, session, source >>

\* with open(output_path, "w") as f: f.write(output)
Write(t) ==
    /\ pc[t] = "write"
    /\ Runnable(t)
    /\ fs' = [fs EXCEPT !.files[OutputOf(t)] =
                 [exists |-> TRUE, size |-> output[t].size,
                  text |-> output[t].text, progress |-> output[t].progress,
                  lang_list |-> output[t].lang_list]]
    /\ Continue(t, "check",
                [trace EXCEPT !.writers[OutputOf(t)] = @ \cup { t }])
    /\ UNCHANGED << templates, env, stats, fetchIdx, output, validation,
                    config, session, source >>

\* the file is looked at again: isfile and getsize
Check(t) ==
    /\ pc[t] = "check"
    /\ Runnable(t)
    /\ LET verdict == CheckOutput(fs.files, OutputOf(t))
       IN  IF verdict = "ok" THEN Return(t) ELSE Raise(t, verdict, trace)
    /\ UNCHANGED << templates, env, stats, fetchIdx, fs, output, validation,
                    config, session, source >>

\* asyncio.run() cancels the tasks still pending once main has ended
Cancel(t) ==
    /\ pc["main"] = "failed"
    /\ pc[t] \in { "ready", "await" }
    /\ current = "none"
    /\ pc' = [pc EXCEPT ![t] = "cancelled"]
    /\ UNCHANGED << templates, env, stats, fetchIdx, current, err, fs, output,
                    validation, config, session, source, gather, trace >>

-----------------------------------------------------------------------------
(* Inputs *)

RequiredPlaceholders(path) ==
    IF path = OverviewTemplate THEN OverviewTokens ELSE LanguagesTokens

\* a template holding, once each, those of its placeholders that are in `kept`,
\* and `pad` bytes of other text
TemplateWith(path, kept, pad) ==
    [exists |-> TRUE,
     body |-> SelectSeq(RequiredPlaceholders(path), LAMBDA x : x \in kept),
     pad |-> pad]

FullTemplate(path, pad) ==
    TemplateWith(path, Range(RequiredPlaceholders(path)), pad)

\* every way a template can be absent or lack placeholders
TemplateVariants(path) ==
    { AbsentFile } \cup
    { TemplateWith(path, kept, 200) :
          kept \in SUBSET Range(RequiredPlaceholders(path)) }

AnyTemplates ==
    { T \in [TemplatePaths -> UNION { TemplateVariants(p) : p \in TemplatePaths }] :
          \A p \in TemplatePaths : T[p] \in TemplateVariants(p) }

ValidTemplates == [p \in TemplatePaths |-> FullTemplate(p, 200)]

\* a few templates for the whole run: absent, valid (bare or padded), lacking
SomeTemplates ==
    { [p \in TemplatePaths |-> IF p = OverviewTemplate THEN o ELSE l] :
        o \in { AbsentFile, FullTemplate(OverviewTemplate, 0),
                FullTemplate(OverviewTemplate, 200),
                TemplateWith(OverviewTemplate,
                             { "{{ name }}", "{{ forks }}", "{{ views }}" }, 200) },
        l \in { AbsentFile, FullTemplate(LanguagesTemplate, 0),
                TemplateWith(LanguagesTemplate, { "{{ lang_list }}" }, 200) } }

ValidEnv ==
    [n \in EnvNames |->
        IF n \in { "ACCESS_TOKEN", "GITHUB_ACTOR" } THEN SetTo(<< "k" >>)
        ELSE Unset]

SomeEnvs ==
    { [n \in EnvNames |->
          CASE n = "ACCESS_TOKEN" -> a [] n = "GITHUB_TOKEN" -> g
            [] n = "GITHUB_ACTOR" -> u [] n = "EXCLUDED" -> x
            [] n = "COUNT_STATS_FROM_FORKS" -> f [] OTHER -> Unset] :
        a \in { Unset, SetTo(<< >>), SetTo(<< "p" >>) },
        g \in { Unset, SetTo(<< "g" >>) },
        u \in { Unset, SetTo(<< "u" >>) },
        x \in { Unset, SetTo(<< "a", ",", " ", "b", "," >>) },
        f \in { Unset, SetTo(<< " ", "O", "n" >>) } }

ForkChars == { "y", "e", "s", "o", "n", "1", " ", "N" }

\* COUNT_STATS_FROM_FORKS unset, or any string over ForkChars
ForkEnvs ==
    { [ValidEnv EXCEPT !["COUNT_STATS_FROM_FORKS"] = v] :
        v \in { Unset } \cup { SetTo(w) : w \in SeqsUpTo(ForkChars, MaxEnvLen) } }

\* the mapping Stats.languages resolves to, in its order: sizes, an optional
\* color, and prop = 100 * size / total
LanguagesOf(sizes, colored) ==
    [i \in DOMAIN sizes |->
        [lang |-> LangNames[i], size |-> sizes[i],
         color |-> IF colored[i] THEN LangColors[i] ELSE NoColor,
         prop |-> [num |-> 100 * sizes[i], den |-> SumSeq(sizes)]]]

LanguageMappings ==
    UNION { { LanguagesOf(sizes, colored) :
                sizes \in [1..k -> 1..MaxSize], colored \in [1..k -> BOOLEAN] } :
            k \in 0..MaxLangs }

StatsOf(name, stargazers, lines_changed, all_repos, languages) ==
    [name |-> name, stargazers |-> stargazers, forks |-> 56,
     total_contributions |-> 7890, lines_changed |-> lines_changed,
     views |-> 42, all_repos |-> all_repos, languages |-> languages]

SampleLanguages == LanguagesOf(<< 1, 3 >>, << TRUE, FALSE >>)

SampleStats ==
    StatsOf(<< "a", "l", "i", "c", "e" >>, 1234, << 100, 50 >>,
            { "r1", "r2", "r3" }, SampleLanguages)

SomeStats == { SampleStats, StatsOf(<< "b" >>, 0, << 0, 0 >>, { }, << >>) }

LanguageStats ==
    { [SampleStats EXCEPT !.languages = l] : l \in LanguageMappings }

\* a name may hold letters, backslashes and text that looks like a token
NameItems == { "x", "n", "\\", "{{ stars }}" }

OverviewStats ==
    { StatsOf(name, stargazers, lines_changed, all_repos, SampleLanguages) :
        name \in SeqsUpTo(NameItems, MaxNameLen),
        stargazers \in { 5, 1234, 1234567 },
        lines_changed \in { << 100, 50 >>, << 999, 1 >> },
        all_repos \in { { }, { "r1", "r2", "r3" } } }

-----------------------------------------------------------------------------
(* Specifications *)

\* the whole run
Init == InitWith(SomeTemplates, SomeEnvs, SomeStats, BOOLEAN)

MainPrefix ==
    \/ MainValidate
    \/ MainCredential
    \/ MainUser
    \/ MainOptions
    \/ MainSession
    \/ MainSource
    \/ MainGather

Next ==
    \/ MainPrefix
    \/ MainJoin
    \/ \E t \in Renderers :
          \/ Start(t)
          \/ Fetch(t)
          \/ EnsureDir(t)
          \/ Mkdir(t)
          \/ Write(t)
          \/ Check(t)
          \/ Cancel(t)

Spec == Init /\ [][Next]_vars

\* validate_templates on every combination of absent and lacking templates
InitValidate == InitWith(AnyTemplates, { ValidEnv }, { SampleStats }, { FALSE })

SpecValidate == InitValidate /\ [][MainValidate]_vars

\* main up to the construction of the statistics source, on every value of
\* COUNT_STATS_FROM_FORKS
InitForks == InitWith({ ValidTemplates }, ForkEnvs, { SampleStats }, { FALSE })

NextForks ==
    \/ MainValidate
    \/ MainCredential
    \/ MainUser
    \/ MainOptions
    \/ MainSession
    \/ MainSource

SpecForks == InitForks /\ [][NextForks]_vars

\* generate_languages on every language mapping
InitLanguages ==
    InitWith({ ValidTemplates }, { ValidEnv }, LanguageStats, BOOLEAN)

NextLanguages ==
    \/ MainPrefix
    \/ Start("languages")
    \/ Fetch("languages")
    \/ EnsureDir("languages")
    \/ Mkdir("languages")
    \/ Write("languages")
    \/ Check("languages")

SpecLanguages == InitLanguages /\ [][NextLanguages]_vars

\* generate_overview on every set of statistics; generate_languages starts
\* first and stays at its await
InitOverview ==
    InitWith({ ValidTemplates }, { ValidEnv }, OverviewStats, BOOLEAN)

NextOverview ==
    \/ MainPrefix
    \/ Start("languages")
    \/ Start("overview")
    \/ Fetch("overview")
    \/ EnsureDir("overview")
    \/ Mkdir("overview")
    \/ Write("overview")
    \/ Check("overview")

SpecOverview == InitOverview /\ [][NextOverview]_vars

-----------------------------------------------------------------------------
(* Properties of the whole run (Spec) *)

IsPrefix(s, t) == Len(s) <= Len(t) /\ \A i \in DOMAIN s : s[i] = t[i]

NoRendererWork ==
    /\ session = "none"
    /\ ~ source.built
    /\ trace.fetches = 0
    /\ \A t \in Renderers : pc[t] = "unborn"
    /\ trace.mkdirs = 0
    /\ \A p \in OutputPaths : trace.writers[p] = { }

\* C1: main() takes its steps in the order template validation, credential,
\* user, optional settings, session, statistics source, renderers; a step that
\* fails ends the run before any later step starts.  With the templates valid
\* and neither ACCESS_TOKEN nor GITHUB_TOKEN set, the run fails with the
\* missing-credential error, and no session, no source, no fetch and no
\* renderer exists.
C1_StepsInOrder ==
    /\ IsPrefix(trace.steps,
                << "validate", "credential", "user", "options", "session",
                   "source", "gather" >>)
    /\ err["main"] = "ConfigurationError" =>
          trace.steps = << "validate" >> /\ NoRendererWork
    /\ err["main"] = "MissingCredential" =>
          trace.steps = << "validate", "credential" >> /\ NoRendererWork
    /\ err["main"] = "MissingUser" =>
          trace.steps = << "validate", "credential", "user" >> /\ NoRendererWork
    /\ session # "none" =>
          /\ validation.ok
          /\ config.access_token # << >>
          /\ config.user # << >>
          /\ Len(trace.steps) >= 4
    /\ source.built => session # "none"
    /\ (trace.fetches > 0 \/ \E t \in Renderers : pc[t] # "unborn") =>
          source.built /\ session # "none"
    /\ ( /\ Falsy(env, "ACCESS_TOKEN")
         /\ Falsy(env, "GITHUB_TOKEN")
         /\ validation.ok
         /\ pc["main"] # "credential" ) =>
          /\ pc["main"] = "failed"
          /\ err["main"] = "MissingCredential"
          /\ NoRendererWork

C1_Witness ==
    /\ pc["main"] = "failed"
    /\ err["main"] = "MissingCredential"
    /\ validation.ok
    /\ ~ env["ACCESS_TOKEN"].set
    /\ ~ env["GITHUB_TOKEN"].set

\* C2: there is no partial success.  main() prints the success line only if
\* both renderers returned; once a renderer has failed the gather never
\* completes normally, main() never reports success, and when main() ends it
\* ends with the exception of the renderer that failed first.
C2_NoPartialSuccess ==
    /\ trace.success =>
          \A t \in Renderers : pc[t] = "done" /\ err[t] = "none"
    /\ pc["main"] = "done" => trace.success
    /\ trace.failures # << >> =>
          /\ ~ trace.success
          /\ pc["main"] # "done"
          /\ gather = trace.failures[1].error
          /\ pc["main"] = "failed" => err["main"] = trace.failures[1].error
    /\ (pc["main"] = "failed" /\ gather # "none") => trace.failures # << >>

C2_Witness ==
    /\ pc["main"] = "failed"
    /\ pc["languages"] = "done"
    /\ pc["overview"] = "failed"
    /\ err["main"] = err["overview"]

\* C8: a renderer that has written its file looks at the file's size again
\* and fails with the output-too-small error if it is below 100 bytes; a
\* renderer has returned only if its file exists with at least 100 bytes.
C8_OutputSizeChecked ==
    \A t \in Renderers :
        LET file == fs.files[OutputOf(t)]
        IN  /\ pc[t] = "done" => file.exists /\ file.size >= 100
            /\ ( /\ t \in trace.writers[OutputOf(t)]
                 /\ pc[t] # "check"
                 /\ file.size < 100 ) =>
                  pc[t] = "failed" /\ err[t] = "OutputTooSmall"
            /\ err[t] = "OutputTooSmall" => file.exists /\ file.size < 100

C8_Witness ==
    /\ err["overview"] = "OutputTooSmall"
    /\ fs.files[OverviewOutput].exists
    /\ fs.files[OverviewOutput].size < 100
    /\ pc["languages"] = "done"
    /\ fs.files[LanguagesOutput].size >= 100

SyncTail == { "ensure_dir", "mkdir", "write", "check" }

\* C10: a renderer is suspended only at its awaited fetches.  While one
\* renderer is between its directory check and its size check no other task
\* takes a step; the directory is created at most once; and each output file
\* is written by its own renderer only.
C10_SynchronousTail ==
    /\ [](trace.mkdirs <= 1)
    /\ [](\A t \in Renderers :
             /\ trace.writers[OutputOf(t)] \subseteq { t }
             /\ err[t] # "FileExistsError"
             /\ pc[t] \in SyncTail => current = t)
    /\ [][\A t \in Renderers :
             pc[t] \in SyncTail =>
                 \A u \in Tasks \ { t } : pc'[u] = pc[u] /\ err'[u] = err[u]]_vars

C10_Witness ==
    /\ \A t \in Renderers : pc[t] = "done" /\ trace.writers[OutputOf(t)] = { t }
    /\ trace.mkdirs = 1
    /\ fs.dir

-----------------------------------------------------------------------------
(* Properties of validate_templates (SpecValidate) *)

Lacking(path) ==
    { token \in Range(RequiredPlaceholders(path)) :
          token \notin Range(templates[path].body) }

Faulty(path) == ~ templates[path].exists \/ Lacking(path) # { }

\* C3: validate_templates fails if a required template is absent or lacks one
\* of its placeholders, and succeeds only if every required template exists
\* with all of its placeholders.  A failure over placeholders names a
\* template that exists and lists exactly the placeholders that template
\* lacks, each once; the template named is the first one at fault in the
\* declared order (overview before languages).
C3_ValidationExact ==
    validation.kind # "pending" =>
        /\ validation.ok <=> \A p \in TemplatePaths : ~ Faulty(p)
        /\ validation.ok <=> pc["main"] # "failed"
        /\ ~ validation.ok =>
              /\ err["main"] = "ConfigurationError"
              /\ validation.path \in TemplatePaths
              /\ Faulty(validation.path)
              /\ validation.path = LanguagesTemplate => ~ Faulty(OverviewTemplate)
              /\ validation.kind = "not_found" <=>
                     ~ templates[validation.path].exists
              /\ validation.kind = "missing_placeholders" =>
                     /\ Range(validation.missing) = Lacking(validation.path)
                     /\ Len(validation.missing) =
                            Cardinality(Lacking(validation.path))
              /\ validation.kind = "not_found" => validation.missing = << >>

C3_Witness ==
    /\ validation.kind = "missing_placeholders"
    /\ validation.path = OverviewTemplate
    /\ Range(validation.missing) = { "{{ stars }}", "{{ repos }}" }
    /\ Cardinality(Lacking(OverviewTemplate)) = 2
    /\ Faulty(LanguagesTemplate)

-----------------------------------------------------------------------------
(* Properties of generate_languages (SpecLanguages) *)

LanguagesRendered == output["languages"].ok

LanguagesWritten == "languages" \in trace.writers[LanguagesOutput]

\* the position of a language in the mapping the source resolved to
PositionOf(lang) ==
    CHOOSE i \in DOMAIN stats.languages : stats.languages[i].lang = lang

\* C4: for a non-empty mapping, the entry at each index of the sorted list
\* gets exactly one of three ratios: {1, 0} if it is the last entry,
\* otherwise {0.99, 0.01} if its percentage is above 50, otherwise
\* {0.98, 0.02}; and the width and the margin computed from it add up to the
\* entry's percentage.
C4_RatioRule ==
    (LanguagesRendered /\ stats.languages # << >>) =>
        LET rows == output["languages"].rows
        IN  /\ Len(rows) = Len(stats.languages)
            /\ \A k \in DOMAIN rows :
                  LET r == rows[k]
                  IN  /\ r.prop = stats.languages[PositionOf(r.lang)].prop
                      /\ r.ratio =
                            IF k = Len(rows) THEN << 100, 0 >>
                            ELSE IF r.prop.num > 50 * r.prop.den
                            THEN << 99, 1 >>
                            ELSE << 98, 2 >>
                      /\ r.w.num * r.m.den * r.prop.den
                            + r.m.num * r.w.den * r.prop.den
                         = r.prop.num * r.w.den * r.m.den
                      /\ r.w.num * 100 * r.prop.den
                            = r.ratio[1] * r.prop.num * r.w.den
                      /\ r.m.num * 100 * r.prop.den
                            = r.ratio[2] * r.prop.num * r.m.den

C4_Witness ==
    /\ pc["languages"] = "done"
    /\ Len(output["languages"].rows) = 3
    /\ output["languages"].rows[1].ratio = << 99, 1 >>
    /\ output["languages"].rows[2].ratio = << 98, 2 >>
    /\ output["languages"].rows[3].ratio = << 100, 0 >>

\* C5: an empty language mapping is no failure: the renderer puts in its
\* place one entry "Unknown" at 100% with the color #cccccc, so that the
\* output holds exactly one bar segment (width 100.000%, margin 0.000%, the
\* ratio {1, 0}) and exactly one list item (Unknown, 100.00%).
C5_EmptyMappingFallback ==
    stats.languages = << >> =>
        /\ pc["languages"] = "failed" => err["languages"] = "FetchError"
        /\ LanguagesRendered =>
              /\ Len(output["languages"].rows) = 1
              /\ output["languages"].rows[1].lang = "Unknown"
              /\ output["languages"].rows[1].color = "#cccccc"
              /\ output["languages"].rows[1].prop = [num |-> 100, den |-> 1]
              /\ output["languages"].rows[1].ratio = << 100, 0 >>
        /\ LanguagesWritten =>
              /\ fs.files[LanguagesOutput].progress =
                    << [color |-> "#cccccc",
                        width |-> << "1", "0", "0", ".", "0", "0", "0" >>,
                        margin |-> << "0", ".", "0", "0", "0" >>] >>
              /\ fs.files[LanguagesOutput].lang_list =
                    << [delay |-> 0, color |-> "#cccccc", lang |-> "Unknown",
                        percent |-> << "1", "0", "0", ".", "0", "0" >>] >>

C5_Witness ==
    /\ stats.languages = << >>
    /\ pc["languages"] = "done"
    /\ Len(fs.files[LanguagesOutput].progress) = 1
    /\ Len(fs.files[LanguagesOutput].lang_list) = 1

\* C9: the bar segments and the list items come in the order of descending
\* size, entries of equal size in the order of the mapping; the list item at
\* index i (from 0) has the animation delay 150 * i ms.
C9_StableDescendingOrder ==
    (LanguagesRendered /\ stats.languages # << >>) =>
        LET rows == output["languages"].rows
            items == output["languages"].lang_list
            bar == output["languages"].progress
        IN  /\ Len(rows) = Len(stats.languages)
            /\ { rows[k].lang : k \in DOMAIN rows }
                  = { stats.languages[i].lang : i \in DOMAIN stats.languages }
            /\ \A k \in DOMAIN rows :
                  rows[k].size = stats.languages[PositionOf(rows[k].lang)].size
            /\ \A j, k \in DOMAIN rows :
                  j < k =>
                     /\ rows[j].size >= rows[k].size
                     /\ rows[j].size = rows[k].size =>
                           PositionOf(rows[j].lang) < PositionOf(rows[k].lang)
            /\ Len(items) = Len(rows) /\ Len(bar) = Len(rows)
            /\ \A k \in DOMAIN rows :
                  /\ items[k].lang = rows[k].lang
                  /\ items[k].delay = 150 * (k - 1)
                  /\ bar[k].color = rows[k].color
                  /\ bar[k].width = rows[k].width

C9_Witness ==
    /\ pc["languages"] = "done"
    /\ Len(fs.files[LanguagesOutput].lang_list) = 3
    /\ fs.files[LanguagesOutput].lang_list[1].lang = "Python"
    /\ fs.files[LanguagesOutput].lang_list[2].lang = "Rust"
    /\ fs.files[LanguagesOutput].lang_list[3].lang = "Go"
    /\ stats.languages[2].size = stats.languages[3].size
    /\ fs.files[LanguagesOutput].lang_list[3].delay = 300

-----------------------------------------------------------------------------
(* Properties of the forks flag (SpecForks) *)

ForksVar == env["COUNT_STATS_FROM_FORKS"]

\* C6, as stated: the flag passed to the statistics source is true exactly
\* if COUNT_STATS_FROM_FORKS is set to a value that, compared without regard
\* to case, is one of "true", "1", "yes", "on"; unset, empty or any other
\* value gives false.
C6_FlagAsStated ==
    source.built =>
        ( source.consider_forked_repos
            <=> (ForksVar.set /\ Lower(ForksVar.value) \in TruthyForms) )

\* C6, amended: the flag passed to the statistics source is true exactly if
\* COUNT_STATS_FROM_FORKS is set to one of "true", "1", "yes", "on", in any
\* case, with any whitespace before and after it; unset, empty, blank or any
\* other value gives false.
C6_FlagAfterTrimming ==
    source.built =>
        ( source.consider_forked_repos
            <=> ( /\ ForksVar.set
                  /\ \E i, j \in DOMAIN ForksVar.value :
                        /\ i <= j
                        /\ \A k \in DOMAIN ForksVar.value :
                              (k < i \/ k > j) => ForksVar.value[k] \in Whitespace
                        /\ Lower(SubSeq(ForksVar.value, i, j)) \in TruthyForms ) )

C6_Witness ==
    /\ source.built
    /\ source.consider_forked_repos
    /\ ForksVar.value = << " ", "o", "N" >>

-----------------------------------------------------------------------------
(* Properties of generate_overview (SpecOverview) *)

\* the counts of the inputs, written with thousands separators
WithSeparators(n) ==
    CASE n = 0 -> << "0" >>
      [] n = 3 -> << "3" >>
      [] n = 5 -> << "5" >>
      [] n = 42 -> << "4", "2" >>
      [] n = 56 -> << "5", "6" >>
      [] n = 150 -> << "1", "5", "0" >>
      [] n = 1000 -> << "1", ",", "0", "0", "0" >>
      [] n = 1234 -> << "1", ",", "2", "3", "4" >>
      [] n = 7890 -> << "7", ",", "8", "9", "0" >>
      [] n = 1234567 -> << "1", ",", "2", "3", "4", ",", "5", "6", "7" >>

\* the template with each placeholder replaced by the value itself
ExpectedOverviewText ==
    LET body == templates[OverviewTemplate].body
    IN  Flatten([k \in DOMAIN body |->
            CASE body[k] = "{{ name }}" -> stats.name
              [] body[k] = "{{ stars }}" -> WithSeparators(stats.stargazers)
              [] body[k] = "{{ forks }}" -> WithSeparators(stats.forks)
              [] body[k] = "{{ contributions }}" ->
                     WithSeparators(stats.total_contributions)
              [] body[k] = "{{ lines_changed }}" ->
                     WithSeparators(stats.lines_changed[1] + stats.lines_changed[2])
              [] body[k] = "{{ views }}" -> WithSeparators(stats.views)
              [] body[k] = "{{ repos }}" ->
                     WithSeparators(Cardinality(stats.all_repos))
              [] OTHER -> << body[k] >>])

\* every awaited field of the overview has resolved
OverviewFetched ==
    \/ pc["overview"] \in SyncTail \cup { "done" }
    \/ pc["overview"] = "failed"
         /\ err["overview"] \notin { "FetchError", "TemplateMissing" }

\* C7: once the statistics have resolved, generate_overview has put into the
\* template the name as it is, stars, forks, contributions and views with
\* thousands separators, lines_changed as added + deleted, and repos as the
\* number of repositories (stars 1234 gives "1,234", lines_changed (100, 50)
\* gives "150").
C7_OverviewSubstitution ==
    OverviewFetched =>
        /\ output["overview"].ok
        /\ output["overview"].text = ExpectedOverviewText

\* what holds of the code: the same, for a name that holds neither a
\* backslash nor the text of a later placeholder
OverviewSubstitutionOfPlainNames ==
    (OverviewFetched /\ Range(stats.name) \subseteq { "x", "n" }) =>
        /\ output["overview"].ok
        /\ output["overview"].text = ExpectedOverviewText

====
